---- MODULE Spec2Model ----
(***************************************************************************)
(* Model of pyod.models.mcd.MCD: the facade around a minimum covariance    *)
(* determinant estimator (MinCovDet) and the base detector's thresholding. *)
(*                                                                         *)
(* Numbers.  Every training matrix has one feature (p = 1), so location,   *)
(* covariance and precision are scalars.  Reals are exact rationals        *)
(* [num, den] with den > 0, kept in lowest terms, so "bit-identical" is    *)
(* equality of records.  Contamination and support_fraction are per cent.  *)
(***************************************************************************)
EXTENDS Integers, Sequences, FiniteSets, TLC

\* ------------------------------------------------------------- bounds
\* Number of MinCovDet objects the model lets fit() create in one run.
MaxFits == 3
\* Number of random restarts of the subset search.
NTrials == 2
\* Cap on concentration steps within one restart.
MaxCSteps == 3
\* Number of states of the pseudo-random generator.
RngMod == 3

\* ---------------------------------------------------------- rationals
RECURSIVE Gcd(_, _)
Gcd(a, b) == IF b = 0 THEN a ELSE Gcd(b, a % b)

Abs(a) == IF a < 0 THEN -a ELSE a

Rat(n, d) ==
    LET g == Gcd(Abs(n), Abs(d))
        s == IF d < 0 THEN -1 ELSE 1
    IN  IF g = 0 THEN [num |-> 0, den |-> 1]
        ELSE [num |-> s * (n \div g), den |-> s * (d \div g)]

RatLess(a, b) == a.num * b.den < b.num * a.den

\* The element of a one-element set.  The({e(v) : v \in {x}}) evaluates x
\* once and names its value v in e.
The(S) == CHOOSE x \in S : TRUE

\* --------------------------------------------------------- the inputs
\* check_array accepts a matrix when it is 2-D, non-empty and finite.
\* rows[i] is the single feature of sample i; finite = FALSE stands for a
\* matrix holding NaN or Inf.
Matrices ==
    { [finite |-> TRUE,  rows |-> <<1, 2, 4, 9>>],
      [finite |-> TRUE,  rows |-> <<1, 2, 8, 9>>],
      [finite |-> TRUE,  rows |-> <<0, 3, 4, 6, 20>>],
      [finite |-> TRUE,  rows |-> <<2, 2, 2, 7>>],
      [finite |-> TRUE,  rows |-> <<5>>],
      [finite |-> FALSE, rows |-> <<1, 2>>] }

check_array(X) == X.finite /\ Len(X.rows) >= 1

\* ------------------------------------------------ random number source
Seeds == {1, 2}
NoSeed == 0
\* One draw advances the generator.
RngNext(r) == (r + 1) % RngMod
\* An int random_state builds a fresh generator from the seed on every fit;
\* None uses the process-wide generator.
SeededRng(seed) == seed % RngMod
check_random_state(seed, ambient) ==
    IF seed = NoSeed THEN ambient ELSE SeededRng(seed)

\* ------------------------------------------------ subset statistics
RECURSIVE SumOver(_, _, _)
SumOver(rows, S, k) ==
    IF S = {} THEN 0
    ELSE LET i == CHOOSE j \in S : \A l \in S : j <= l
             v == IF k = 1 THEN rows[i] ELSE rows[i] * rows[i]
         IN  v + SumOver(rows, S \ {i}, k)

\* Empirical mean of the samples in S (0 when the data is assumed centred).
SubsetLocation(rows, S, centred) ==
    IF centred THEN Rat(0, 1) ELSE Rat(SumOver(rows, S, 1), Cardinality(S))

\* Empirical (population) covariance of the samples in S about the location.
SubsetCovariance(rows, S, centred) ==
    LET m == Cardinality(S)
        s == SumOver(rows, S, 1)
        q == SumOver(rows, S, 2)
    IN  IF centred THEN Rat(q, m) ELSE Rat(m * q - s * s, m * m)

\* covariance^-1; only called on a nonsingular covariance.
Invert(cov) == Rat(cov.den, cov.num)

\* (x - location)^t . precision . (x - location), for one feature.
Mahalanobis(x, loc, prec) ==
    LET c == loc.den * x - loc.num
    IN  Rat(c * c * prec.num, loc.den * loc.den * prec.den)

Score(rows, loc, prec) ==
    The({[i \in 1..Len(rows) |-> Mahalanobis(rows[i], l, q)] :
            l \in {loc}, q \in {prec}})

\* ------------------------------------------------ FastMCD (p = 1)
\* Support size: floor((n + p + 1) / 2) by default, else the given per cent
\* of n raised to at least the default.  0 stands for an invalid size.
SupportSize(n, support_fraction) ==
    LET dflt == (n + 2) \div 2
        h0   == IF support_fraction = 0 THEN dflt
                ELSE (support_fraction * n) \div 100
    IN  IF h0 > n \/ h0 < 2 THEN 0
        ELSE IF h0 < dflt THEN dflt ELSE h0

\* The pairs i < j of 1..n in lexicographic order, and the one a draw picks.
PairRank(n, pr) ==
    Cardinality({q \in (1..n) \X (1..n) :
        /\ q[1] < q[2]
        /\ (q[1] < pr[1] \/ (q[1] = pr[1] /\ q[2] < pr[2]))})

\* Initial elemental subset (p + 1 = 2 samples) picked by generator state r.
InitialSubset(n, r) ==
    LET npairs == (n * (n - 1)) \div 2
        k      == (5 * r) % npairs
        pr     == CHOOSE q \in (1..n) \X (1..n) :
                      q[1] < q[2] /\ PairRank(n, q) = k
    IN  {pr[1], pr[2]}

\* The h samples nearest to the current estimate; equal distances are
\* broken by position in the data.
HSmallest(d, h) ==
    {i \in DOMAIN d :
        Cardinality({j \in DOMAIN d :
            RatLess(d[j], d[i]) \/ (d[j] = d[i] /\ j < i)}) < h}

\* One concentration step from subset S.
CStep(rows, S, h, centred) ==
    The({HSmallest(d, h) :
            d \in {Score(rows, SubsetLocation(rows, S, centred),
                         Invert(SubsetCovariance(rows, S, centred)))}})

\* C-steps until the determinant stops decreasing, the covariance
\* degenerates, or the cap is hit (the subset found so far is then used).
RECURSIVE Concentrate(_, _, _, _, _)
Concentrate(rows, S, h, centred, k) ==
    IF k = 0 \/ SubsetCovariance(rows, S, centred).num = 0 THEN S
    ELSE The({IF RatLess(SubsetCovariance(rows, S2, centred),
                         SubsetCovariance(rows, S, centred))
              THEN Concentrate(rows, S2, h, centred, k - 1)
              ELSE S2 :
                 S2 \in {CStep(rows, S, h, centred)}})

\* The restarts t..NTrials, drawing from generator state r; the subset of
\* smallest determinant wins, the first found on a tie.
RECURSIVE BestSubset(_, _, _, _, _, _)
BestSubset(rows, h, centred, r, t, best) ==
    IF t > NTrials THEN best
    ELSE The({BestSubset(rows, h, centred, (r + 1) % RngMod, t + 1,
                         IF /\ best # {}
                            /\ ~RatLess(SubsetCovariance(rows, S, centred),
                                        SubsetCovariance(rows, best, centred))
                         THEN best ELSE S) :
                 S \in {The({Concentrate(rows, S0, h, centred, MaxCSteps) :
                               S0 \in {InitialSubset(Len(rows), r)}})}})

RECURSIVE RngAfter(_, _)
RngAfter(r, k) == IF k = 0 THEN r ELSE RngAfter(RngNext(r), k - 1)

\* Chi-squared(p = 1) 0.975 quantile, in thousandths.
Chi2Cutoff == 5024

Zero == Rat(0, 1)

\* An estimator object as constructed: no fitted attribute yet.
MinCovDet(id, sp, ac, sf, rs) ==
    [id |-> id, store_precision |-> sp, assume_centered |-> ac,
     support_fraction |-> sf, random_state |-> rs,
     fitted |-> FALSE, error |-> "", n |-> 0,
     raw_location_ |-> Zero, raw_covariance_ |-> Zero, raw_support_ |-> {},
     location_ |-> Zero, covariance_ |-> Zero, precision_ |-> Zero,
     has_precision |-> FALSE, support_ |-> {}, dist_ |-> <<>>]

\* precision_ when stored, else the inverse of covariance_.
get_precision(det) ==
    IF det.has_precision THEN det.precision_ ELSE Invert(det.covariance_)

\* The outcome of a failed estimate.
FailedEstimate(error) ==
    [error |-> error, raw_location_ |-> Zero, raw_covariance_ |-> Zero,
     raw_support_ |-> {}, location_ |-> Zero, covariance_ |-> Zero,
     support_ |-> {}, dist_ |-> <<>>]

\* Reweighting from the raw subset: the samples within the chi-squared
\* cutoff of the raw estimate give the final location and covariance.
Reweight(rows, ac, raw) ==
    The({IF rawcov.num = 0 THEN FailedEstimate("SingularMatrix")
         ELSE The({IF mask = {} \/ SubsetCovariance(rows, mask, ac).num = 0
                   THEN FailedEstimate("SingularMatrix")
                   ELSE The({[error |-> "",
                              raw_location_ |-> rawloc,
                              raw_covariance_ |-> rawcov,
                              raw_support_ |-> raw, location_ |-> loc,
                              covariance_ |-> cov, support_ |-> mask,
                              dist_ |-> Score(rows, loc, Invert(cov))] :
                                loc \in {SubsetLocation(rows, mask, ac)},
                                cov \in {SubsetCovariance(rows, mask, ac)}}) :
                      mask \in {The({{i \in 1..Len(rows) :
                                        d[i].num * 1000 < Chi2Cutoff * d[i].den} :
                                    d \in {Score(rows, rawloc, Invert(rawcov))}})}}) :
            rawloc \in {SubsetLocation(rows, raw, ac)},
            rawcov \in {SubsetCovariance(rows, raw, ac)}})

\* fast_mcd, correction and reweighting on one matrix: the raw and the
\* final estimate, or the error raised.
FastMCD(rows, ac, sf, r) ==
    IF SupportSize(Len(rows), sf) = 0 THEN FailedEstimate("InvalidParameter")
    ELSE The({Reweight(rows, ac, raw) :
                 raw \in {BestSubset(rows, SupportSize(Len(rows), sf), ac,
                                     r, 1, {})}})

\* FastMCD tabulated over the matrices, parameters and generator states the
\* model uses.
ValidRows == {X.rows : X \in {m \in Matrices : check_array(m)}}
FastMCDKeys == ValidRows \X BOOLEAN \X {0, 75, 150} \X (0..(RngMod - 1))
FastMCDTable ==
    [a \in FastMCDKeys |-> FastMCD(a[1], a[2], a[3], a[4])] @@ <<>>

\* MinCovDet.fit with generator state r: the estimator after the call.  A
\* failed call leaves the estimator unfitted and records the error raised.
MinCovDetFit(det, rows, r) ==
    The({IF e.error # "" THEN [det EXCEPT !.error = e.error]
         ELSE [det EXCEPT
                 !.fitted = TRUE, !.n = Len(rows),
                 !.raw_location_ = e.raw_location_,
                 !.raw_covariance_ = e.raw_covariance_,
                 !.raw_support_ = e.raw_support_,
                 !.location_ = e.location_, !.covariance_ = e.covariance_,
                 !.precision_ =
                     IF det.store_precision THEN Invert(e.covariance_) ELSE Zero,
                 !.has_precision = det.store_precision,
                 !.support_ = e.support_,
                 !.dist_ = e.dist_] :
            e \in {FastMCDTable[<<rows, det.assume_centered,
                                  det.support_fraction, r>>]}})

\* MinCovDet.mahalanobis(X) on a fitted estimator.
mahalanobis(det, rows) == Score(rows, det.location_, get_precision(det))

\* The estimator's fit as MCD.fit calls it: the generator is resolved from
\* the estimator's random_state and the process-wide generator state.
EstimatorFit(det, rows, ambient) ==
    MinCovDetFit(det, rows, check_random_state(det.random_state, ambient))

\* ------------------------------------------------ base detector
\* BaseDetector.__init__: contamination must lie in the open (0, 0.5).
ContaminationValid(c) == 0 < c /\ c < 50

\* The k-th smallest of the scores (k = 1 is the minimum).
OrderStatistic(scores, k) ==
    LET v == CHOOSE i \in DOMAIN scores :
                /\ Cardinality({j \in DOMAIN scores :
                                   RatLess(scores[j], scores[i])}) < k
                /\ Cardinality({j \in DOMAIN scores :
                                   ~RatLess(scores[i], scores[j])}) >= k
    IN  scores[v]

\* ceil(n * (1 - contamination)).
ThresholdRank(n, c) == (n * (100 - c) + 99) \div 100

\* BaseDetector._process_decision_scores: threshold and labels from scores.
process_decision_scores(scores, c) ==
    The({[threshold_ |-> thr,
          labels_ |-> [i \in DOMAIN scores |->
                         IF RatLess(thr, scores[i]) THEN 1 ELSE 0]] :
            thr \in {OrderStatistic(scores, ThresholdRank(Len(scores), c))}})

\* ------------------------------------------------ the MCD instance
VARIABLES
    self,             \* constructor parameters of the instance, if any
    attrs,            \* names of the attributes fit has set on the instance
    detector_,        \* the MinCovDet delegate
    decision_scores_,
    threshold_,
    labels_,
    np_random,        \* state of the process-wide generator
    n_created,        \* MinCovDet objects created so far
    outcome,          \* what the last call did: returned value or error
    fitted_X,         \* history: the last successful fit's training matrix
    last_seeded       \* history: the last successful fit made with an int seed

vars == <<self, attrs, detector_, decision_scores_, threshold_, labels_,
          np_random, n_created, outcome, fitted_X, last_seeded>>

fitted_state == <<attrs, detector_, decision_scores_, threshold_, labels_>>

\* The constructor calls the model makes: contamination and support_fraction
\* in per cent (support_fraction 0 is None), random_state NoSeed is None.
Cfg(c, sp, ac, sf, rs) ==
    [contamination |-> c, store_precision |-> sp, assume_centered |-> ac,
     support_fraction |-> sf, random_state |-> rs]

Configs ==
    { Cfg(10, TRUE,  FALSE, 0,   NoSeed),
      Cfg(40, TRUE,  FALSE, 0,   1),
      Cfg(40, FALSE, FALSE, 0,   2),
      Cfg(10, TRUE,  TRUE,  75,  1),
      Cfg(10, TRUE,  FALSE, 150, NoSeed),
      Cfg(0,  TRUE,  FALSE, 0,   NoSeed),
      Cfg(50, TRUE,  FALSE, 0,   NoSeed),
      Cfg(60, TRUE,  FALSE, 0,   1) }

NoSelf == [exists |-> FALSE]
NoDetector == MinCovDet(0, TRUE, FALSE, 0, NoSeed)
NoMatrix == [finite |-> FALSE, rows |-> <<>>]

FitAttrs == {"decision_scores_", "threshold_", "labels_"}

\* What the reproducibility property compares between two fits.
Estimate(det, scores) ==
    [raw_location |-> det.raw_location_, covariance |-> det.covariance_,
     support |-> det.support_, decision_scores |-> scores]

Init ==
    /\ self = NoSelf
    /\ attrs = {}
    /\ detector_ = NoDetector
    /\ decision_scores_ = <<>>
    /\ threshold_ = Zero
    /\ labels_ = <<>>
    /\ np_random \in 0..(RngMod - 1)
    /\ n_created = 0
    /\ outcome = [op |-> "none", error |-> ""]
    /\ fitted_X = [ok |-> FALSE, X |-> NoMatrix]
    /\ last_seeded = [set |-> FALSE]

\* MCD.__init__ without the base class's parameter check.
ConstructUnchecked(c, sp, ac, sf, rs) ==
    /\ self' = [exists |-> TRUE, contamination |-> c, store_precision |-> sp,
                assume_centered |-> ac, support_fraction |-> sf,
                random_state |-> rs]
    /\ outcome' = [op |-> "construct", error |-> "", contamination |-> c]
    /\ attrs' = {}
    /\ detector_' = NoDetector
    /\ decision_scores_' = <<>>
    /\ threshold_' = Zero
    /\ labels_' = <<>>
    /\ fitted_X' = [ok |-> FALSE, X |-> NoMatrix]
    /\ UNCHANGED <<np_random, n_created, last_seeded>>

\* MCD(contamination, store_precision, assume_centered, support_fraction,
\* random_state): a new instance takes the place of the modelled one.  A
\* rejected contamination raises and leaves no instance.
Construct(c, sp, ac, sf, rs) ==
    IF ContaminationValid(c)
    THEN ConstructUnchecked(c, sp, ac, sf, rs)
    ELSE /\ self' = NoSelf
         /\ outcome' = [op |-> "construct", error |-> "InvalidParameter",
                         contamination |-> c]
         /\ attrs' = {}
         /\ detector_' = NoDetector
         /\ decision_scores_' = <<>>
         /\ threshold_' = Zero
         /\ labels_' = <<>>
         /\ fitted_X' = [ok |-> FALSE, X |-> NoMatrix]
         /\ UNCHANGED <<np_random, n_created, last_seeded>>

\* A fit that keeps the delegate it already has.
ReuseDetector(cur, has, id, slf) ==
    IF has THEN cur
    ELSE MinCovDet(id, slf.store_precision, slf.assume_centered,
                   slf.support_fraction, slf.random_state)

\* A fit that does not hand random_state to the delegate.
UnseededDetector(cur, has, id, slf) ==
    MinCovDet(id, slf.store_precision, slf.assume_centered,
              slf.support_fraction, NoSeed)

\* self.detector_ = MinCovDet(store_precision=..., assume_centered=...,
\*                            support_fraction=..., random_state=...)
NewDetector(cur, has, id, slf) ==
    MinCovDet(id, slf.store_precision, slf.assume_centered,
              slf.support_fraction, slf.random_state)

\* self.decision_scores_ = self.detector_.dist_
FitScores(det) == det.dist_

\* A fit that thresholds only the first time.
StaleThreshold(scores, c, has, thr, lab) ==
    IF has THEN [threshold_ |-> thr, labels_ |-> lab]
    ELSE process_decision_scores(scores, c)

\* self._process_decision_scores(): threshold_ and labels_ after the call.
FitThreshold(scores, c, has, thr, lab) == process_decision_scores(scores, c)

\* MCD.fit(X).
Fit(X) ==
    /\ self.exists
    /\ n_created < MaxFits
    /\ IF ~check_array(X)
       THEN /\ outcome' = [op |-> "fit", error |-> "InvalidInput", X |-> X,
                           repeat |-> FALSE, prior |-> fitted_X]
            /\ UNCHANGED <<self, attrs, detector_, decision_scores_,
                           threshold_, labels_, np_random, n_created,
                           fitted_X, last_seeded>>
       ELSE \E det1 \in {EstimatorFit(NewDetector(detector_,
                                                  "detector_" \in attrs,
                                                  n_created + 1, self),
                                      X.rows, np_random)} :
            /\ n_created' = n_created + 1
            /\ detector_' = det1
            /\ np_random' =
                 IF /\ det1.random_state = NoSeed
                    /\ SupportSize(Len(X.rows), det1.support_fraction) # 0
                 THEN RngAfter(np_random, NTrials)
                 ELSE np_random
            /\ UNCHANGED self
            /\ IF det1.fitted
               THEN \E tl \in {FitThreshold(FitScores(det1), self.contamination,
                                            "threshold_" \in attrs,
                                            threshold_, labels_)} :
                    /\ attrs' = attrs \cup {"_classes", "detector_"} \cup FitAttrs
                    /\ decision_scores_' = FitScores(det1)
                    /\ threshold_' = tl.threshold_
                    /\ labels_' = tl.labels_
                    /\ fitted_X' = [ok |-> TRUE, X |-> X]
                    /\ outcome' =
                         [op |-> "fit", error |-> "", X |-> X,
                          repeat |-> /\ self.random_state # NoSeed
                                     /\ last_seeded.set
                                     /\ last_seeded.X = X
                                     /\ last_seeded.self = self,
                          prior |-> fitted_X]
                    /\ last_seeded' =
                         IF self.random_state # NoSeed
                         THEN [set |-> TRUE, X |-> X, self |-> self,
                               estimate |-> Estimate(det1, FitScores(det1))]
                         ELSE last_seeded
               ELSE /\ attrs' = attrs \cup {"_classes", "detector_"}
                    /\ outcome' = [op |-> "fit", error |-> det1.error,
                                   X |-> X, repeat |-> FALSE,
                                   prior |-> fitted_X]
                    /\ UNCHANGED <<decision_scores_, threshold_, labels_,
                                   fitted_X, last_seeded>>

\* check_is_fitted passing on the presence of the delegate alone.
check_is_fitted_delegate(a) == "detector_" \in a

\* check_is_fitted(self, ['decision_scores_', 'threshold_', 'labels_'])
check_is_fitted(a) == FitAttrs \subseteq a

\* What decision_function(X) returns or raises in the current state.
DecisionResult(X) ==
    IF ~check_is_fitted(attrs)
    THEN [op |-> "decision_function", error |-> "NotFitted", X |-> X,
          value |-> <<>>]
    ELSE IF ~check_array(X)
    THEN [op |-> "decision_function", error |-> "InvalidInput", X |-> X,
          value |-> <<>>]
    ELSE IF ~("detector_" \in attrs /\ detector_.fitted)
    THEN [op |-> "decision_function", error |-> "AttributeError", X |-> X,
          value |-> <<>>]
    ELSE [op |-> "decision_function", error |-> "", X |-> X,
          value |-> mahalanobis(detector_, X.rows)]

\* A decision_function that keeps the scores it computed.
DecisionFunctionCaching(X) ==
    /\ self.exists
    /\ outcome' = DecisionResult(X)
    /\ decision_scores_' = IF outcome'.error = "" THEN outcome'.value
                           ELSE decision_scores_
    /\ UNCHANGED <<self, attrs, detector_, threshold_, labels_, np_random,
                   n_created, fitted_X, last_seeded>>

\* MCD.decision_function(X).
DecisionFunction(X) ==
    /\ self.exists
    /\ outcome' = DecisionResult(X)
    /\ UNCHANGED <<self, attrs, detector_, decision_scores_, threshold_,
                   labels_, np_random, n_created, fitted_X, last_seeded>>

Accessors == {"raw_location_", "raw_covariance_", "raw_support_",
              "location_", "covariance_", "precision_", "support_"}

\* The value of an attribute of a fitted delegate; precision_ is None
\* (the empty tuple here) when it was not stored.
DelegateValue(det, name) ==
    CASE name = "raw_location_"   -> det.raw_location_
      [] name = "raw_covariance_" -> det.raw_covariance_
      [] name = "raw_support_"    -> det.raw_support_
      [] name = "location_"       -> det.location_
      [] name = "covariance_"     -> det.covariance_
      [] name = "precision_"      -> IF det.has_precision THEN det.precision_
                                     ELSE <<>>
      [] name = "support_"        -> det.support_

\* The properties raw_location_ .. support_: return self.detector_.<name>.
ReadAccessor(name) ==
    /\ self.exists
    /\ outcome' =
         IF ~("detector_" \in attrs /\ detector_.fitted)
         THEN [op |-> "read", name |-> name, error |-> "AttributeError",
               value |-> <<>>]
         ELSE [op |-> "read", name |-> name, error |-> "",
               value |-> DelegateValue(detector_, name)]
    /\ UNCHANGED <<self, attrs, detector_, decision_scores_, threshold_,
                   labels_, np_random, n_created, fitted_X, last_seeded>>

Next ==
    \/ \E k \in Configs :
            Construct(k.contamination, k.store_precision, k.assume_centered,
                      k.support_fraction, k.random_state)
    \/ \E X \in Matrices : Fit(X)
    \/ \E X \in Matrices : DecisionFunction(X)
    \/ \E name \in Accessors : ReadAccessor(name)

Spec == Init /\ [][Next]_vars
\* ------------------------------------------------------------ claims
\* Unfitted: no fit call has completed successfully on the instance.
Unfitted == self.exists /\ ~fitted_X.ok
Fitted == self.exists /\ fitted_X.ok

\* C1: decision_function on an instance in the Unfitted state (also when the
\* only fit calls so far raised) fails with NotFitted and returns no scores,
\* whatever X is.
C1_UnfittedDecisionFunction ==
    (Unfitted /\ outcome.op = "decision_function") =>
        (outcome.error = "NotFitted" /\ outcome.value = <<>>)

\* C1 witness: decision_function with a valid X after a fit that raised in the
\* estimator, so that the instance holds a delegate but is still Unfitted.
C1_Witness ==
    /\ Unfitted
    /\ outcome.op = "decision_function"
    /\ check_array(outcome.X)
    /\ "detector_" \in attrs

\* C2: every read accessor fails with NotFitted on an Unfitted instance.
C2_UnfittedAccessorNotFitted ==
    (Unfitted /\ outcome.op = "read") => outcome.error = "NotFitted"

\* C3: a successful fit(X2), after any earlier fit calls, leaves a delegate
\* created by that very call and fitted attributes that are those of a fit
\* of X2 alone: the delegate is some FastMCD estimate of X2 under the
\* instance's parameters, decision_scores_ are its distances, threshold_ and
\* labels_ come from these scores, one per sample of X2.
C3_RefitDiscardsPriorState ==
    (self.exists /\ outcome.op = "fit" /\ outcome.error = "") =>
        /\ detector_.id = n_created
        /\ \E r \in 0..(RngMod - 1) :
              detector_ =
                MinCovDetFit(MinCovDet(n_created, self.store_precision,
                                       self.assume_centered,
                                       self.support_fraction,
                                       self.random_state),
                             outcome.X.rows, r)
        /\ decision_scores_ = detector_.dist_
        /\ Len(decision_scores_) = Len(outcome.X.rows)
        /\ Len(labels_) = Len(outcome.X.rows)
        /\ \E i \in DOMAIN decision_scores_ : threshold_ = decision_scores_[i]
        /\ \A i \in DOMAIN labels_ :
              labels_[i] = IF RatLess(threshold_, decision_scores_[i])
                           THEN 1 ELSE 0
        /\ attrs = {"_classes", "detector_"} \cup FitAttrs
        /\ fitted_X.X = outcome.X

\* C3 witness: a successful fit on an instance already Fitted on another
\* matrix.
C3_Witness ==
    /\ self.exists
    /\ outcome.op = "fit"
    /\ outcome.error = ""
    /\ outcome.prior.ok
    /\ outcome.prior.X # outcome.X

\* C4: on a Fitted instance, decision_function applied to the training matrix
\* of the last successful fit returns exactly decision_scores_.
C4_TrainingScoresReproduced ==
    (Fitted /\ outcome.op = "decision_function" /\ outcome.X = fitted_X.X) =>
        (outcome.error = "" /\ outcome.value = decision_scores_)

\* C5: a decision_function call on a Fitted instance, whether it returns or
\* raises, changes none of detector_, decision_scores_, threshold_, labels_
\* nor any attribute an accessor reads.
C5_DecisionFunctionReadOnly ==
    [][(Fitted /\ outcome'.op = "decision_function") =>
          (fitted_state' = fitted_state /\ self' = self /\ fitted_X' = fitted_X)]_vars

\* C5 witness: decision_function returned scores for a matrix other than the
\* training matrix on a Fitted instance.
C5_Witness ==
    /\ Fitted
    /\ outcome.op = "decision_function"
    /\ outcome.error = ""
    /\ outcome.X # fitted_X.X
    /\ outcome.value # decision_scores_

NLabelled == Cardinality({i \in DOMAIN labels_ : labels_[i] = 1})
TieAtThreshold ==
    Cardinality({i \in DOMAIN decision_scores_ :
                    decision_scores_[i] = threshold_}) > 1
\* n * contamination rounded to the nearest integer, halves up or to even.
RoundedUp(n, c) == (n * c + 50) \div 100
RoundedEven(n, c) ==
    IF (n * c) % 100 = 50 /\ ((n * c) \div 100) % 2 = 0
    THEN (n * c) \div 100 ELSE RoundedUp(n, c)

C7_LabelsFromThreshold ==
    Fitted =>
        /\ Len(labels_) = Len(fitted_X.X.rows)
        /\ Len(decision_scores_) = Len(fitted_X.X.rows)
        /\ \A i \in DOMAIN labels_ :
              /\ labels_[i] \in {0, 1}
              /\ labels_[i] = 1 <=> RatLess(threshold_, decision_scores_[i])

\* C7 witness: a Fitted state, reached by a refit, with both labels present;
\* the sample scoring exactly the threshold is labelled 0.
C7_Witness ==
    /\ Fitted
    /\ outcome.op = "fit"
    /\ outcome.error = ""
    /\ outcome.prior.ok
    /\ \E i, j \in DOMAIN labels_ :
          /\ labels_[i] = 1
          /\ labels_[j] = 0
          /\ decision_scores_[j] = threshold_

C9_SameSeedSameEstimate ==
    [][(outcome'.op = "fit" /\ outcome'.error = "" /\ outcome'.repeat
            /\ last_seeded.set)
          => last_seeded'.estimate = last_seeded.estimate]_vars

\* C9 witness: a seeded fit repeated on the same instance, on a matrix whose
\* raw estimate depends on the generator's draws.
C9_Witness ==
    /\ outcome.op = "fit"
    /\ outcome.error = ""
    /\ outcome.repeat
    /\ outcome.prior.ok
    /\ outcome.prior.X = outcome.X
    /\ outcome.X.rows = <<1, 2, 8, 9>>

\* C10: whenever decision_function's fitted check passes, detector_ is a
\* successfully fitted estimator and the one whose distances are stored in
\* decision_scores_ (so a fit that raises on a Fitted instance leaves it able
\* to score with its previous model).
C10_FittedCheckImpliesFittedDelegate ==
    (self.exists /\ check_is_fitted(attrs)) =>
        /\ "detector_" \in attrs
        /\ detector_.fitted
        /\ decision_scores_ = detector_.dist_
====
